---- MODULE Spec2Model ----
(***************************************************************************)
(* Model of src/main.py (simple_racing_arcade): the Track containment      *)
(* test, the Racer window's key handlers, setup/reset and the per-tick     *)
(* on_update, together with the part of the arcade/pymunk physics engine   *)
(* that on_update drives (apply_force, set_velocity, body.angle, step).    *)
(*                                                                         *)
(* Numbers are fixed point:                                                *)
(*   angles      in 1e-5 rad        (CAR_TURN_SPEED 0.075 rad = 7500)      *)
(*   velocities  in 1/VelScale px/s (so that force * dt / mass is exact)   *)
(*   positions   in 1/PosScale px   (so that velocity * dt is exact)       *)
(*   cos, sin    in 1e-5                                                   *)
(***************************************************************************)
EXTENDS Integers, Sequences, FiniteSets, TLC

VARIABLES track, pos, vel, angle,
          accelerate, slowdown, turn_left, turn_right,
          out_of_track, calls, ticks, alive, oot_text, probe, events

vars == <<track, pos, vel, angle, accelerate, slowdown, turn_left, turn_right,
          out_of_track, calls, ticks, alive, oot_text, probe, events>>

(* ------------------------------ bounds -------------------------------- *)
\* on_update calls explored after the starting state
MaxTicks == 3
\* side of the probe grid of the containment specification, in grid steps
ProbeSteps == 17

(* ----------------------------- constants ------------------------------ *)
SCREEN_WIDTH == 1280
SCREEN_HEIGHT == 720
CAR_MASS == 1
\* DAMPING = 0.05, in hundredths
DAMPING == 5
ACCELERATE_FORCE == 1250
BREAK_FORCE == 1250
MAX_VELOCITY == 100000
\* CAR_TURN_SPEED = 0.075 rad, in 1e-5 rad
CAR_TURN_SPEED == 7500
\* CAR_DRIFT = 0.35, in hundredths
CAR_DRIFT == 35

TRACKS ==
  << [ track |-> "assets/racing_track.png",
       start |-> <<110, 360>>,
       outer_bound |-> << <<50, 250>>, <<290, 50>>, <<975, 50>>, <<1100, 175>>,
                          <<1100, 225>>, <<885, 285>>, <<885, 360>>,
                          <<1230, 400>>, <<1230, 575>>, <<1115, 670>>,
                          <<280, 670>>, <<50, 500>> >>,
       inner_bound |-> << <<200, 285>>, <<355, 160>>, <<880, 160>>,
                          <<640, 270>>, <<640, 415>>, <<800, 480>>,
                          <<1070, 490>>, <<1040, 575>>, <<350, 575>>,
                          <<200, 465>> >> ] >>

(* -------------------------- fixed-point basics ------------------------ *)
\* PymunkPhysicsEngine.step() is called without argument: delta_time = 1/60
StepsPerSecond == 60
\* velocity unit 1/6 px/s: ACCELERATE_FORCE / CAR_MASS / 60 = 125 units
VelScale == 6
\* position unit 1/360 px: velocity * delta_time is the velocity's number
PosScale == VelScale * StepsPerSecond
\* DAMPING ^ (1/60) = 0.05 ^ (1/60) = 0.95130, in 1e-4
StepDamping == 9513
TrigScale == 100000

Abs(n) == IF n < 0 THEN -n ELSE n

\* division rounding toward zero
TruncDiv(a, b) == IF a >= 0 THEN a \div b ELSE -((-a) \div b)

\* cos and sin of k * CAR_TURN_SPEED, k = 0..24, in 1e-5
CosTurn ==
  << 100000, 99719, 98877, 97479, 95534, 93051, 90045, 86532, 82534, 78071,
     73169, 67856, 62161, 56117, 49757, 43118, 36236, 29150, 21901, 14528,
     7074, -420, -7912, -15359, -22720 >>
SinTurn ==
  << 0, 7493, 14944, 22311, 29552, 36627, 43497, 50121, 56464, 62490,
     68164, 73455, 78333, 82770, 86742, 90227, 93204, 95657, 97572, 98939,
     99749, 99999, 99687, 98813, 97385 >>

\* the angle by which a turn rotates the velocity:
\* CAR_TURN_SPEED - CAR_DRIFT * CAR_TURN_SPEED = 0.04875 rad
VelTurn == CAR_TURN_SPEED - (CAR_DRIFT * CAR_TURN_SPEED) \div 100

\* cos(0.04875), sin(0.04875) in 1e-5
CosVelTurn == 99881
SinVelTurn == 4873

Cos(a) ==
  IF Abs(a) = VelTurn THEN CosVelTurn
  ELSE CosTurn[(Abs(a) \div CAR_TURN_SPEED) + 1]

Sin(a) ==
  LET s == IF Abs(a) = VelTurn THEN SinVelTurn
           ELSE SinTurn[(Abs(a) \div CAR_TURN_SPEED) + 1]
  IN  IF a < 0 THEN -s ELSE s

\* pymunk Vec2d.rotated(angle): the vector rotated counter-clockwise
Rotated(v, a) ==
  << TruncDiv(v[1] * Cos(a) - v[2] * Sin(a), TrigScale),
     TruncDiv(v[1] * Sin(a) + v[2] * Cos(a), TrigScale) >>

(* ------------------------------- Track -------------------------------- *)
\* Track._flip_y: a new list, every point mirrored in the screen height
flip_y(points) ==
  [i \in 1..Len(points) |-> <<points[i][1], SCREEN_HEIGHT - points[i][2]>>]

TrackStoresFlipped(rec) ==
  [ outer_box   |-> flip_y(rec.outer_bound),
    inner_box   |-> flip_y(rec.inner_bound),
    start       |-> rec.start,
    mask_outer  |-> flip_y(rec.outer_bound),
    mask_inner  |-> flip_y(rec.inner_bound) ]

\* Track.__init__: the stored boxes and start, and the polygons handed to
\* the rasterizer (image_draw.polygon) for the mask
Track(rec) ==
  [ outer_box   |-> rec.outer_bound,
    inner_box   |-> rec.inner_bound,
    start       |-> rec.start,
    mask_outer  |-> flip_y(rec.outer_bound),
    mask_inner  |-> flip_y(rec.inner_bound) ]

\* edge i of a polygon is crossed by the ray from (x, y) towards +x;
\* x, y in 1/PosScale px, polygon points in px
Crosses(x, y, p, q) ==
  LET px == p[1] * PosScale
      py == p[2] * PosScale
      qy == q[2] * PosScale
  IN  /\ (py > y) # (qy > y)
      /\ IF q[2] > p[2]
         THEN (x - px) * (q[2] - p[2]) < (q[1] - p[1]) * (y - py)
         ELSE (x - px) * (q[2] - p[2]) > (q[1] - p[1]) * (y - py)

\* arcade.is_point_in_polygon: even-odd ray casting over the closed polygon
is_point_in_polygon(x, y, polygon) ==
  LET n == Len(polygon)
      crossed == {i \in 1..n : Crosses(x, y, polygon[i], polygon[(i % n) + 1])}
  IN  n >= 3 /\ Cardinality(crossed) % 2 = 1

\* Track.is_ontrack
is_ontrack_inner_too(t, x, y) ==
  /\ is_point_in_polygon(x, y, t.outer_box)
  /\ is_point_in_polygon(x, y, t.inner_box)
is_ontrack(t, x, y) ==
  /\ is_point_in_polygon(x, y, t.outer_box)
  /\ ~is_point_in_polygon(x, y, t.inner_box)

(* --------------------------- physics engine --------------------------- *)
ZeroVec == <<0, 0>>

\* entries of the log of engine calls made by the latest on_update
ApplyForceCall(f)  == [op |-> "apply_force",  arg |-> f]
SetVelocityCall(v) == [op |-> "set_velocity", arg |-> v]
SetAngleCall(a)    == [op |-> "set_angle",    arg |-> <<a>>]
StepCall           == [op |-> "step",         arg |-> <<>>]

\* apply_force -> body.apply_force_at_local_point(force, (0, 0)): the force is
\* given in body coordinates and turned into world coordinates with the
\* body's angle at the time of the call
WorldForce(f, a) == Rotated(f, a)

\* velocity change of one step under a world force: force / mass * dt
ForceDv(f) ==
  << TruncDiv(f[1] * VelScale, CAR_MASS * StepsPerSecond),
     TruncDiv(f[2] * VelScale, CAR_MASS * StepsPerSecond) >>

\* damping of one step: velocity * DAMPING ^ dt
Damped(v) ==
  << TruncDiv(v[1] * StepDamping, 10000), TruncDiv(v[2] * StepDamping, 10000) >>

\* speed in units of 100 px/s, squared
SpeedSq100(v) ==
  LET a == TruncDiv(v[1], VelScale * 100)
      b == TruncDiv(v[2], VelScale * 100)
  IN  a * a + b * b

ISqrt(n) == CHOOSE r \in 0..n : r * r <= n /\ (r + 1) * (r + 1) > n

\* max_velocity=MAX_VELOCITY: a faster body is scaled back to the cap
ClampVelocity(v) ==
  LET cap == MAX_VELOCITY \div 100
  IN  IF SpeedSq100(v) > cap * cap
      THEN LET len == ISqrt(SpeedSq100(v))
           IN  << TruncDiv(v[1] * cap, len), TruncDiv(v[2] * cap, len) >>
      ELSE v

\* PymunkPhysicsEngine.step(): positions advance by the current velocity,
\* then the velocity is damped and takes the applied force, which is cleared;
\* the sprite is moved to the body (resync)
Step(p, v, f) ==
  [ pos |-> << p[1] + v[1], p[2] + v[2] >>,
    vel |-> LET d == Damped(v)
                dv == ForceDv(f)
            IN  ClampVelocity(<< d[1] + dv[1], d[2] + dv[2] >>) ]

(* ------------------------------ on_update ----------------------------- *)
\* the four control flags as one record
Input(acc, slow, left, right) ==
  [accelerate |-> acc, slowdown |-> slow, turn_left |-> left, turn_right |-> right]

\* lines 203-209: the condition of the first branch of on_update
OffTrackPositionOnly(t, p, oot) == ~is_ontrack(t, p[1], p[2])
OffTrack(t, p, oot) == ~is_ontrack(t, p[1], p[2]) \/ oot

\* lines 215-218: the test that chooses the hard stop
HardStopReversed(v) == v[2] > BREAK_FORCE * VelScale
HardStop(v) == v[2] < BREAK_FORCE * VelScale

\* lines 212-221: accelerate, or else brake; a = body angle, v = velocity
AccelBrake(v, a, in) ==
  IF in.accelerate
  THEN [ vel |-> v,
         force |-> WorldForce(<<0, ACCELERATE_FORCE>>, a),
         calls |-> << ApplyForceCall(<<0, ACCELERATE_FORCE>>) >> ]
  ELSE IF in.slowdown
  THEN IF HardStop(v)
       THEN [ vel |-> ZeroVec, force |-> ZeroVec,
              calls |-> << SetVelocityCall(ZeroVec) >> ]
       ELSE [ vel |-> v,
              force |-> WorldForce(<<0, -BREAK_FORCE>>, a),
              calls |-> << ApplyForceCall(<<0, -BREAK_FORCE>>) >> ]
  ELSE [ vel |-> v, force |-> ZeroVec, calls |-> << >> ]

TurnBoth(v, a, in) ==
  LET l == IF in.turn_left
           THEN [ angle |-> a + CAR_TURN_SPEED,
                  vel   |-> Rotated(v, VelTurn),
                  calls |-> << SetAngleCall(a + CAR_TURN_SPEED),
                               SetVelocityCall(Rotated(v, VelTurn)) >> ]
           ELSE [ angle |-> a, vel |-> v, calls |-> << >> ]
  IN  IF in.turn_right
      THEN [ angle |-> l.angle - CAR_TURN_SPEED,
             vel   |-> Rotated(l.vel, -VelTurn),
             calls |-> l.calls \o
                       << SetAngleCall(l.angle - CAR_TURN_SPEED),
                          SetVelocityCall(Rotated(l.vel, -VelTurn)) >> ]
      ELSE l

TurnWithoutDrift(v, a, in) ==
  IF in.turn_left
  THEN [ angle |-> a + CAR_TURN_SPEED,
         vel   |-> Rotated(v, CAR_TURN_SPEED),
         calls |-> << SetAngleCall(a + CAR_TURN_SPEED),
                      SetVelocityCall(Rotated(v, CAR_TURN_SPEED)) >> ]
  ELSE IF in.turn_right
  THEN [ angle |-> a - CAR_TURN_SPEED,
         vel   |-> Rotated(v, -CAR_TURN_SPEED),
         calls |-> << SetAngleCall(a - CAR_TURN_SPEED),
                      SetVelocityCall(Rotated(v, -CAR_TURN_SPEED)) >> ]
  ELSE [ angle |-> a, vel |-> v, calls |-> << >> ]

\* lines 222-245: turn left, or else right; v = velocity after AccelBrake
Turn(v, a, in) ==
  IF in.turn_left
  THEN [ angle |-> a + CAR_TURN_SPEED,
         vel   |-> Rotated(v, VelTurn),
         calls |-> << SetAngleCall(a + CAR_TURN_SPEED),
                      SetVelocityCall(Rotated(v, VelTurn)) >> ]
  ELSE IF in.turn_right
  THEN [ angle |-> a - CAR_TURN_SPEED,
         vel   |-> Rotated(v, -VelTurn),
         calls |-> << SetAngleCall(a - CAR_TURN_SPEED),
                      SetVelocityCall(Rotated(v, -VelTurn)) >> ]
  ELSE [ angle |-> a, vel |-> v, calls |-> << >> ]

\* lines 203-210: out_of_track is assigned in the first branch only
NewOutOfTrackRecomputed(t, p, oot) == ~is_ontrack(t, p[1], p[2])
NewOutOfTrackInverted(t, p, oot) ==
  IF is_ontrack(t, p[1], p[2]) \/ oot THEN TRUE ELSE oot
NewOutOfTrack(t, p, oot) == IF OffTrack(t, p, oot) THEN TRUE ELSE oot

on_update_turns_always(w, in, t) ==
  LET off == OffTrack(t, w.pos, w.out_of_track)
      ab  == AccelBrake(w.vel, w.angle, in)
      tn  == Turn(IF off THEN w.vel ELSE ab.vel, w.angle, in)
      f1  == IF off THEN ZeroVec ELSE ab.force
      c1  == IF off THEN tn.calls ELSE ab.calls \o tn.calls
      st  == Step(w.pos, tn.vel, f1)
  IN  [ pos |-> st.pos,
        vel |-> st.vel,
        angle |-> tn.angle,
        out_of_track |-> NewOutOfTrack(t, w.pos, w.out_of_track),
        calls |-> c1 \o << StepCall >> ]

on_update_checks_after_step(w, in, t) ==
  LET ab  == AccelBrake(w.vel, w.angle, in)
      tn  == Turn(ab.vel, w.angle, in)
      v1  == IF w.out_of_track THEN w.vel ELSE tn.vel
      a1  == IF w.out_of_track THEN w.angle ELSE tn.angle
      f1  == IF w.out_of_track THEN ZeroVec ELSE ab.force
      c1  == IF w.out_of_track THEN << >> ELSE ab.calls \o tn.calls
      st  == Step(w.pos, v1, f1)
  IN  [ pos |-> st.pos,
        vel |-> st.vel,
        angle |-> a1,
        out_of_track |-> NewOutOfTrack(t, st.pos, w.out_of_track),
        calls |-> c1 \o << StepCall >> ]

\* Racer.on_update on the world w = [pos, vel, angle, out_of_track, calls]
on_update(w, in, t) ==
  LET off == OffTrack(t, w.pos, w.out_of_track)
      ab  == AccelBrake(w.vel, w.angle, in)
      tn  == Turn(ab.vel, w.angle, in)
      v1  == IF off THEN w.vel ELSE tn.vel
      a1  == IF off THEN w.angle ELSE tn.angle
      f1  == IF off THEN ZeroVec ELSE ab.force
      c1  == IF off THEN << >> ELSE ab.calls \o tn.calls
      st  == Step(w.pos, v1, f1)
  IN  [ pos |-> st.pos,
        vel |-> st.vel,
        angle |-> a1,
        out_of_track |-> NewOutOfTrack(t, w.pos, w.out_of_track),
        calls |-> c1 \o << StepCall >> ]

(* ------------------------------- setup -------------------------------- *)
setup_at_typo_start ==
  LET t == Track(TRACKS[1])
  IN  [ track |-> t,
        world |-> [ pos |-> << TRACKS[1].start[1] * PosScale,
                               (TRACKS[1].start[2] \div 10) * PosScale >>,
                    vel |-> ZeroVec,
                    angle |-> 0,
                    out_of_track |-> FALSE,
                    calls |-> << >> ] ]

\* Racer.setup: a new Track from TRACKS[0], a new Car at its start, a new
\* physics engine whose body is at rest at angle 0, out_of_track cleared
setup ==
  LET t == Track(TRACKS[1])
  IN  [ track |-> t,
        world |-> [ pos |-> << TRACKS[1].start[1] * PosScale,
                               TRACKS[1].start[2] * PosScale >>,
                    vel |-> ZeroVec,
                    angle |-> 0,
                    out_of_track |-> FALSE,
                    calls |-> << >> ] ]

(* ----------------------------- start states --------------------------- *)
NoInput   == Input(FALSE, FALSE, FALSE, FALSE)
HoldUp    == Input(TRUE, FALSE, FALSE, FALSE)
HoldRight == Input(FALSE, FALSE, FALSE, TRUE)

\* n ticks of on_update with the flags held
RECURSIVE RunFor(_, _, _, _)
RunFor(w, in, n, t) ==
  IF n = 0 THEN w
  ELSE LET nw == on_update(w, in, t)
       IN  \* the test makes the tick's result a value before the next tick
           IF nw.calls # << >> THEN RunFor(nw, in, n - 1, t) ELSE nw

\* a script is a sequence of <<flags, number of ticks>>
RECURSIVE RunScript(_, _, _)
RunScript(w, script, t) ==
  IF script = << >> THEN w
  ELSE RunScript(RunFor(w, script[1][1], script[1][2], t), Tail(script), t)

\* The states the model starts from are the state after main() has called
\* setup, and states that on_update itself reaches from it with keys held:
\*   - straight ahead from the start, one tick before crossing outer_bound
\*   - turned right ten times, then ahead, one tick before crossing
\*     inner_bound near its corner (200, 465)
\*   - the same run eight ticks later: flagged, about to re-enter the track
StartScripts ==
  { << >>,
    << <<HoldUp, 44>> >>,
    << <<HoldRight, 10>>, <<HoldUp, 35>> >>,
    << <<HoldRight, 10>>, <<HoldUp, 43>> >> }

HeldAfter(script) ==
  IF script = << >> THEN NoInput ELSE script[Len(script)][1]

(* ------------------------------ handlers ------------------------------ *)
Keys == {"Q", "ESCAPE", "R", "UP", "W", "DOWN", "S", "LEFT", "A", "RIGHT", "D",
         "SPACE"}

\* the log of the key events delivered to the window is kept only by the
\* key specification; elsewhere it holds this value and is left alone
NoLog == << <<"log", "off">> >>

\* the log after the handler was called with the key
Logged(kind, key) ==
  IF events = NoLog THEN events ELSE Append(events, <<kind, key>>)

World == [pos |-> pos, vel |-> vel, angle |-> angle,
          out_of_track |-> out_of_track, calls |-> calls]

Held == Input(accelerate, slowdown, turn_left, turn_right)

OnKeyPressResetClearsInput(key) ==
  /\ alive
  /\ IF key \in {"Q", "ESCAPE"}
     THEN /\ alive' = FALSE
          /\ UNCHANGED <<track, pos, vel, angle, accelerate, slowdown,
                         turn_left, turn_right, out_of_track, calls>>
     ELSE /\ alive' = alive
          /\ IF key = "R"
             THEN /\ track' = setup.track
                  /\ pos' = setup.world.pos
                  /\ vel' = setup.world.vel
                  /\ angle' = setup.world.angle
                  /\ out_of_track' = setup.world.out_of_track
                  /\ calls' = setup.world.calls
             ELSE UNCHANGED <<track, pos, vel, angle, out_of_track, calls>>
          /\ accelerate' = IF key \in {"UP", "W"} THEN TRUE
                           ELSE IF key = "R" THEN FALSE ELSE accelerate
          /\ slowdown' = IF key \notin {"UP", "W"} /\ key \in {"DOWN", "S"}
                         THEN TRUE
                         ELSE IF key = "R" THEN FALSE ELSE slowdown
          /\ turn_left' = IF key \in {"LEFT", "A"} THEN TRUE
                          ELSE IF key = "R" THEN FALSE ELSE turn_left
          /\ turn_right' = IF key \notin {"LEFT", "A"} /\ key \in {"RIGHT", "D"}
                           THEN TRUE
                           ELSE IF key = "R" THEN FALSE ELSE turn_right
  /\ events' = Logged("press", key)
  /\ UNCHANGED <<ticks, oot_text, probe>>

OnKeyPressKeepsVelocity(key) ==
  /\ alive
  /\ IF key \in {"Q", "ESCAPE"}
     THEN /\ alive' = FALSE
          /\ UNCHANGED <<track, pos, vel, angle, accelerate, slowdown,
                         turn_left, turn_right, out_of_track, calls>>
     ELSE /\ alive' = alive
          /\ IF key = "R"
             THEN /\ track' = setup.track
                  /\ pos' = setup.world.pos
                  /\ vel' = vel
                  /\ angle' = setup.world.angle
                  /\ out_of_track' = setup.world.out_of_track
                  /\ calls' = setup.world.calls
             ELSE UNCHANGED <<track, pos, vel, angle, out_of_track, calls>>
          /\ accelerate' = IF key \in {"UP", "W"} THEN TRUE ELSE accelerate
          /\ slowdown' = IF key \notin {"UP", "W"} /\ key \in {"DOWN", "S"}
                         THEN TRUE ELSE slowdown
          /\ turn_left' = IF key \in {"LEFT", "A"} THEN TRUE ELSE turn_left
          /\ turn_right' = IF key \notin {"LEFT", "A"} /\ key \in {"RIGHT", "D"}
                           THEN TRUE ELSE turn_right
  /\ events' = Logged("press", key)
  /\ UNCHANGED <<ticks, oot_text, probe>>

\* Racer.on_key_press
OnKeyPress(key) ==
  /\ alive
  /\ IF key \in {"Q", "ESCAPE"}
     THEN /\ alive' = FALSE
          /\ UNCHANGED <<track, pos, vel, angle, accelerate, slowdown,
                         turn_left, turn_right, out_of_track, calls>>
     ELSE /\ alive' = alive
          /\ IF key = "R"
             THEN /\ track' = setup.track
                  /\ pos' = setup.world.pos
                  /\ vel' = setup.world.vel
                  /\ angle' = setup.world.angle
                  /\ out_of_track' = setup.world.out_of_track
                  /\ calls' = setup.world.calls
             ELSE UNCHANGED <<track, pos, vel, angle, out_of_track, calls>>
          /\ accelerate' = IF key \in {"UP", "W"} THEN TRUE ELSE accelerate
          /\ slowdown' = IF key \notin {"UP", "W"} /\ key \in {"DOWN", "S"}
                         THEN TRUE ELSE slowdown
          /\ turn_left' = IF key \in {"LEFT", "A"} THEN TRUE ELSE turn_left
          /\ turn_right' = IF key \notin {"LEFT", "A"} /\ key \in {"RIGHT", "D"}
                           THEN TRUE ELSE turn_right
  /\ events' = Logged("press", key)
  /\ UNCHANGED <<ticks, oot_text, probe>>

OnKeyReleaseCopyPaste(key) ==
  /\ alive
  /\ accelerate' = IF key \in {"UP", "W", "DOWN", "S"} THEN FALSE ELSE accelerate
  /\ slowdown' = IF key \in {"DOWN", "S"} THEN FALSE ELSE slowdown
  /\ turn_left' = IF key \in {"LEFT", "A"} THEN FALSE ELSE turn_left
  /\ turn_right' = IF key \notin {"LEFT", "A"} /\ key \in {"RIGHT", "D"}
                   THEN FALSE ELSE turn_right
  /\ UNCHANGED <<track, pos, vel, angle, out_of_track, calls, ticks, alive,
                 oot_text, probe>>
  /\ events' = Logged("release", key)

\* Racer.on_key_release
OnKeyRelease(key) ==
  /\ alive
  /\ accelerate' = IF key \in {"UP", "W"} THEN FALSE ELSE accelerate
  /\ slowdown' = IF key \in {"DOWN", "S"} THEN FALSE ELSE slowdown
  /\ turn_left' = IF key \in {"LEFT", "A"} THEN FALSE ELSE turn_left
  /\ turn_right' = IF key \notin {"LEFT", "A"} /\ key \in {"RIGHT", "D"}
                   THEN FALSE ELSE turn_right
  /\ UNCHANGED <<track, pos, vel, angle, out_of_track, calls, ticks, alive,
                 oot_text, probe>>
  /\ events' = Logged("release", key)

\* Racer.on_update
OnUpdate ==
  /\ alive
  /\ ticks < MaxTicks
  /\ LET w == on_update(World, Held, track)
     IN  /\ pos' = w.pos
         /\ vel' = w.vel
         /\ angle' = w.angle
         /\ out_of_track' = w.out_of_track
         /\ calls' = w.calls
  /\ ticks' = ticks + 1
  /\ UNCHANGED <<track, accelerate, slowdown, turn_left, turn_right, alive,
                 oot_text, probe, events>>

\* Racer.on_draw: the status text that is drawn
OnDraw ==
  /\ alive
  /\ oot_text' = IF out_of_track THEN "On Track: No" ELSE "On Track: Yes"
  /\ UNCHANGED <<track, pos, vel, angle, accelerate, slowdown, turn_left,
                 turn_right, out_of_track, calls, ticks, alive, probe,
                 events>>

Init ==
  \E script \in StartScripts :
    LET w == RunScript(setup.world, script, setup.track)
        h == HeldAfter(script)
    IN  /\ track = setup.track
        /\ pos = w.pos
        /\ vel = w.vel
        /\ angle = w.angle
        /\ out_of_track = w.out_of_track
        /\ calls = w.calls
        /\ accelerate = h.accelerate
        /\ slowdown = h.slowdown
        /\ turn_left = h.turn_left
        /\ turn_right = h.turn_right
        /\ ticks = 0
        /\ alive = TRUE
        /\ oot_text = ""
        /\ probe = << >>
        /\ events = NoLog

Next ==
  \/ \E key \in Keys : OnKeyPress(key)
  \/ \E key \in Keys : OnKeyRelease(key)
  \/ OnUpdate
  \/ OnDraw

Spec == Init /\ [][Next]_vars

(* ----------------------- containment specification ------------------- *)
\* the track of the scenario: a 100x100 outer square and a centred 20x20
\* inner square
ScenarioTrack ==
  [ track |-> "scenario",
    start |-> <<10, 10>>,
    outer_bound |-> << <<0, 0>>, <<100, 0>>, <<100, 100>>, <<0, 100>> >>,
    inner_bound |-> << <<40, 40>>, <<60, 40>>, <<60, 60>>, <<40, 60>> >> ]

MaxOf(S) == CHOOSE m \in S : \A e \in S : e <= m
MinOf(S) == CHOOSE m \in S : \A e \in S : m <= e
Xs(polygon) == {polygon[i][1] : i \in 1..Len(polygon)}
Ys(polygon) == {polygon[i][2] : i \in 1..Len(polygon)}

\* the probes form a grid over and around the outer box, in px
ProbeUnit(t) == MaxOf(Xs(t.outer_box)) \div 10
ProbeCoord(t, i) == ProbeUnit(t) * (i - 1)

\* a Track built from a record, probed before any tick
InitTrack ==
  \E rec \in {TRACKS[1], ScenarioTrack} :
    /\ track = Track(rec)
    /\ pos = << rec.start[1] * PosScale, rec.start[2] * PosScale >>
    /\ vel = ZeroVec
    /\ angle = 0
    /\ out_of_track = FALSE
    /\ calls = << >>
    /\ accelerate = FALSE
    /\ slowdown = FALSE
    /\ turn_left = FALSE
    /\ turn_right = FALSE
    /\ ticks = 0
    /\ alive = TRUE
    /\ oot_text = ""
    /\ probe = << >>
    /\ events = NoLog

\* a call of Track.is_ontrack(x, y) on the track, with its result
IsOntrackCall(i, j) ==
  LET x == ProbeCoord(track, i)
      y == ProbeCoord(track, j)
  IN  /\ probe' = [ x |-> x, y |-> y,
                    on |-> is_ontrack(track, x * PosScale, y * PosScale) ]
      /\ UNCHANGED <<track, pos, vel, angle, accelerate, slowdown, turn_left,
                     turn_right, out_of_track, calls, ticks, alive, oot_text,
                     events>>

NextTrack == \E i, j \in 0..ProbeSteps : IsOntrackCall(i, j)

SpecTrack == InitTrack /\ [][NextTrack]_vars

(* -------------------------- load specification ----------------------- *)
\* a track definition whose inner_bound has two points only
ShortTrack ==
  [ track |-> "assets/racing_track.png",
    start |-> <<110, 360>>,
    outer_bound |-> TRACKS[1].outer_bound,
    inner_bound |-> << <<200, 285>>, <<355, 160>> >> ]

\* Racer.setup when TRACKS[0] is the record rec
SetupFrom(rec) ==
  [ track |-> Track(rec),
    world |-> [ pos |-> << rec.start[1] * PosScale, rec.start[2] * PosScale >>,
                vel |-> ZeroVec,
                angle |-> 0,
                out_of_track |-> FALSE,
                calls |-> << >> ] ]

\* main() with either definition configured as TRACKS[0]
InitLoad ==
  \E rec \in {TRACKS[1], ShortTrack} :
    /\ track = SetupFrom(rec).track
    /\ pos = SetupFrom(rec).world.pos
    /\ vel = SetupFrom(rec).world.vel
    /\ angle = SetupFrom(rec).world.angle
    /\ out_of_track = SetupFrom(rec).world.out_of_track
    /\ calls = SetupFrom(rec).world.calls
    /\ accelerate = FALSE
    /\ slowdown = FALSE
    /\ turn_left = FALSE
    /\ turn_right = FALSE
    /\ ticks = 0
    /\ alive = TRUE
    /\ oot_text = ""
    /\ probe = << >>
    /\ events = NoLog

\* the simulation loop on the loaded track; the reset key is left out, as it
\* would load the configured definition again
NextLoad ==
  \/ \E key \in Keys \ {"R"} : OnKeyPress(key)
  \/ \E key \in Keys : OnKeyRelease(key)
  \/ OnUpdate
  \/ OnDraw

SpecLoad == InitLoad /\ [][NextLoad]_vars

(* --------------------------- key specification ----------------------- *)
\* key events delivered to one window, logged
MaxEvents == 3

\* the window after main() has called setup, before any key event
InitKeys ==
  /\ track = setup.track
  /\ pos = setup.world.pos
  /\ vel = setup.world.vel
  /\ angle = setup.world.angle
  /\ out_of_track = setup.world.out_of_track
  /\ calls = setup.world.calls
  /\ accelerate = FALSE
  /\ slowdown = FALSE
  /\ turn_left = FALSE
  /\ turn_right = FALSE
  /\ ticks = 0
  /\ alive = TRUE
  /\ oot_text = ""
  /\ probe = << >>
  /\ events = << >>

NextKeys ==
  /\ Len(events) < MaxEvents
  /\ \/ \E key \in Keys : OnKeyPress(key)
     \/ \E key \in Keys : OnKeyRelease(key)

SpecKeys == InitKeys /\ [][NextKeys]_vars

(* ------------------------------ properties ---------------------------- *)
\* a step of on_update
TickStep == ticks' = ticks + 1

\* a step of the reset: an R key press, which calls setup
ResetStep == OnKeyPress("R")

OnTrackNow == is_ontrack(track, pos[1], pos[2])

StartPos == << track.start[1] * PosScale, track.start[2] * PosScale >>

\* C1: without a reset, once out_of_track is true it stays true in every
\* later state, whatever the input flags are and wherever the car is.
C1_Sticky == [][(out_of_track /\ ~ResetStep) => out_of_track']_vars

\* the flagged car is back inside the track area after further ticks, with
\* controls held, and is still flagged
C1_Witness ==
  /\ out_of_track
  /\ OnTrackNow
  /\ ticks >= 2
  /\ accelerate
  /\ turn_left

\* C2: a reset leaves the car at the track's start with zero velocity, zero
\* angle and out_of_track false, from any state.
C2_Reset ==
  [][ResetStep => /\ pos' = << track'.start[1] * PosScale,
                              track'.start[2] * PosScale >>
                  /\ vel' = ZeroVec
                  /\ angle' = 0
                  /\ ~out_of_track']_vars

\* a reset has happened to a car that was drawn as flagged: the car is at the
\* start, at rest, not flagged, and no tick has run on the new engine
C2_Witness ==
  /\ oot_text = "On Track: No"
  /\ calls = << >>
  /\ pos = StartPos
  /\ vel = ZeroVec
  /\ angle = 0
  /\ ~out_of_track

\* C3: a tick that starts off the track, or already flagged, sets
\* out_of_track and makes one engine call, the step: no force, no velocity
\* or angle edit, whatever the flags; the body coasts under damping.
C3_OffTrackTick ==
  [][(TickStep /\ (~OnTrackNow \/ out_of_track))
       => /\ out_of_track'
          /\ calls' = << StepCall >>
          /\ angle' = angle
          /\ pos' = << pos[1] + vel[1], pos[2] + vel[2] >>
          /\ vel' = Damped(vel)]_vars

\* a flagged car whose latest tick made the step only, with all four
\* controls held, at a position that is inside the track area
C3_Witness ==
  /\ out_of_track
  /\ OnTrackNow
  /\ calls = << StepCall >>
  /\ ticks >= 2
  /\ accelerate /\ slowdown /\ turn_left /\ turn_right

\* an axis-aligned rectangle given by its four corners
IsRect(polygon) ==
  /\ Len(polygon) = 4
  /\ \A i \in 1..4 :
       /\ polygon[i][1] \in {MinOf(Xs(polygon)), MaxOf(Xs(polygon))}
       /\ polygon[i][2] \in {MinOf(Ys(polygon)), MaxOf(Ys(polygon))}
  /\ Cardinality({polygon[i] : i \in 1..4}) = 4

StrictlyInsideRect(x, y, r) ==
  /\ MinOf(Xs(r)) < x /\ x < MaxOf(Xs(r))
  /\ MinOf(Ys(r)) < y /\ y < MaxOf(Ys(r))

StrictlyOutsideRect(x, y, r) ==
  \/ x < MinOf(Xs(r)) \/ x > MaxOf(Xs(r))
  \/ y < MinOf(Ys(r)) \/ y > MaxOf(Ys(r))

\* C4: on a track of two rectangles, is_ontrack is true for every probe
\* strictly inside outer_bound and strictly outside inner_bound, and false
\* for every probe outside outer_bound or inside inner_bound; on the scenario
\* track (10,10) is on track and (50,50) and (150,150) are not.
C4_IsOntrack ==
  (probe # << >> /\ IsRect(track.outer_box) /\ IsRect(track.inner_box))
    => /\ (/\ StrictlyInsideRect(probe.x, probe.y, track.outer_box)
           /\ StrictlyOutsideRect(probe.x, probe.y, track.inner_box))
             => probe.on
       /\ (\/ StrictlyOutsideRect(probe.x, probe.y, track.outer_box)
           \/ StrictlyInsideRect(probe.x, probe.y, track.inner_box))
             => ~probe.on
       /\ (track = Track(ScenarioTrack) /\ probe.x = 10 /\ probe.y = 10)
             => probe.on
       /\ (track = Track(ScenarioTrack) /\ probe.x = 50 /\ probe.y = 50)
             => ~probe.on
       /\ (track = Track(ScenarioTrack) /\ probe.x = 150 /\ probe.y = 150)
             => ~probe.on

\* the scenario's point (10, 10) has been probed and found on the track
C4_Witness ==
  /\ track = Track(ScenarioTrack)
  /\ probe # << >>
  /\ probe.x = 10 /\ probe.y = 10
  /\ probe.on

\* C5: the start of every record of TRACKS is on its track, so the first
\* tick after setup or reset does not set out_of_track.
C5_StartOnTrack ==
  /\ [](\A i \in 1..Len(TRACKS) :
          is_ontrack(Track(TRACKS[i]), TRACKS[i].start[1] * PosScale,
                     TRACKS[i].start[2] * PosScale))
  /\ [][(TickStep /\ calls = << >>) => ~out_of_track']_vars

\* a car that was drawn as flagged has been reset, the first tick after the
\* reset has run and the car is not flagged
C5_Witness ==
  /\ oot_text = "On Track: No"
  /\ Len(calls) >= 1
  /\ pos = StartPos
  /\ ~out_of_track

\* a tick on the track with brake held and accelerate not held
BrakeTick ==
  /\ TickStep
  /\ OnTrackNow /\ ~out_of_track
  /\ slowdown /\ ~accelerate

\* the velocity along the car's heading (body axis (0, 1) turned by angle)
ForwardSpeed ==
  TruncDiv(vel[2] * Cos(angle) - vel[1] * Sin(angle), TrigScale)

\* C6: a brake tick that starts with the forward speed below the threshold
\* ends with velocity exactly zero, also when a turn is applied in the tick,
\* and no brake tick ends with the car moving backwards.
C6_BrakeStops ==
  [][BrakeTick
       => /\ (ForwardSpeed < BREAK_FORCE * VelScale) => vel' = ZeroVec
          /\ ForwardSpeed' >= 0]_vars

\* a moving car was stopped away from the start by a tick that braked and
\* turned
C6_Witness ==
  /\ vel = ZeroVec
  /\ pos # StartPos
  /\ Len(calls) = 4
  /\ calls[1] = SetVelocityCall(ZeroVec)
  /\ calls[2].op = "set_angle"

\* both velocity components stay below the hard-stop threshold on every
\* reachable state, so no tick takes the braking force of line 221
SpeedBelowThreshold ==
  /\ Abs(vel[1]) < BREAK_FORCE * VelScale
  /\ Abs(vel[2]) < BREAK_FORCE * VelScale
  /\ \A i \in 1..Len(calls) : calls[i] # ApplyForceCall(<<0, -BREAK_FORCE>>)

NumCalls(op, c) == Cardinality({i \in 1..Len(c) : c[i].op = op})

\* the velocity the control logic leaves to the step: the argument of the
\* latest set_velocity of the tick, or the velocity before the tick
ControlVel(c, v) ==
  LET S == {i \in 1..Len(c) : c[i].op = "set_velocity"}
  IN  IF S = {} THEN v ELSE c[MaxOf(S)].arg

\* C8: every tick checks containment on the position before the step, then
\* runs the control logic, then makes exactly one step, as its last call;
\* a car that the step moves off the track is not flagged by that tick.
C8_TickOrder ==
  [][TickStep
       => /\ out_of_track' = (out_of_track \/ ~OnTrackNow)
          /\ NumCalls("step", calls') = 1
          /\ calls'[Len(calls')] = StepCall
          /\ LET cv == ControlVel(calls', vel)
             IN  pos' = << pos[1] + cv[1], pos[2] + cv[2] >>]_vars

\* the step of the latest tick has moved the car off the track and the car
\* is not flagged yet
C8_Witness ==
  /\ ticks >= 1
  /\ calls # << >>
  /\ ~OnTrackNow
  /\ ~out_of_track

\* C9: in a tick on the track at most one turn and at most one of
\* accelerate/brake acts: left wins over right, accelerate wins over brake.
C9_Exclusive ==
  [][(TickStep /\ OnTrackNow /\ ~out_of_track)
       => /\ NumCalls("apply_force", calls') <= 1
          /\ NumCalls("set_angle", calls') <= 1
          /\ (turn_left /\ turn_right) => angle' = angle + CAR_TURN_SPEED
          /\ (accelerate /\ slowdown)
               => /\ calls'[1] = ApplyForceCall(<<0, ACCELERATE_FORCE>>)
                  /\ NumCalls("set_velocity", calls')
                       = NumCalls("set_angle", calls')]_vars

\* a tick ran with all four controls held: one force, then one turn to the
\* left, then the step
C9_Witness ==
  /\ ticks >= 1
  /\ accelerate /\ slowdown /\ turn_left /\ turn_right
  /\ Len(calls) = 4
  /\ calls[1] = ApplyForceCall(<<0, ACCELERATE_FORCE>>)
  /\ calls[2] = SetAngleCall(angle)
  /\ angle = CAR_TURN_SPEED
  /\ calls[4] = StepCall

\* C10: in a tick on the track, turn-left adds CAR_TURN_SPEED to the angle
\* and rotates the velocity left by the accelerate/brake branch by
\* CAR_TURN_SPEED * (1 - CAR_DRIFT); turn-right alone does the same with
\* negated angles; with neither held the angle is unchanged.
C10_Turn ==
  [][(TickStep /\ OnTrackNow /\ ~out_of_track)
       => LET vb  == IF ~accelerate /\ slowdown /\ vel[2] < BREAK_FORCE * VelScale
                     THEN ZeroVec ELSE vel
              rot == (CAR_TURN_SPEED * (100 - CAR_DRIFT)) \div 100
              n   == Len(calls')
          IN  /\ turn_left
                   => /\ angle' = angle + CAR_TURN_SPEED
                      /\ calls'[n - 1] = SetVelocityCall(Rotated(vb, rot))
                      /\ calls'[n - 2] = SetAngleCall(angle + CAR_TURN_SPEED)
                      /\ pos' = << pos[1] + Rotated(vb, rot)[1],
                                   pos[2] + Rotated(vb, rot)[2] >>
              /\ (~turn_left /\ turn_right)
                   => /\ angle' = angle - CAR_TURN_SPEED
                      /\ calls'[n - 1] = SetVelocityCall(Rotated(vb, -rot))
                      /\ calls'[n - 2] = SetAngleCall(angle - CAR_TURN_SPEED)
                      /\ pos' = << pos[1] + Rotated(vb, -rot)[1],
                                   pos[2] + Rotated(vb, -rot)[2] >>
              /\ (~turn_left /\ ~turn_right)
                   => /\ angle' = angle
                      /\ NumCalls("set_angle", calls') = 0]_vars

\* a moving car was turned left in a tick in which accelerate also acted:
\* the velocity handed to set_velocity points left of straight ahead
C10_Witness ==
  /\ Len(calls) = 4
  /\ calls[1].op = "apply_force"
  /\ calls[2] = SetAngleCall(CAR_TURN_SPEED)
  /\ calls[3].op = "set_velocity"
  /\ calls[3].arg[1] < 0
  /\ calls[3].arg[2] > 0
  /\ angle = CAR_TURN_SPEED

\* C11: out_of_track turns true only in a tick whose position before the
\* step fails is_ontrack, and turns false only by the reset; no other key
\* press, no key release and no draw changes it.
C11_FlagChanges ==
  [][/\ (~out_of_track /\ out_of_track') => (TickStep /\ ~OnTrackNow)
     /\ (out_of_track /\ ~out_of_track') => ResetStep]_vars

\* a car that was drawn as on track has been flagged by a later tick, off
\* the track, with a turn key held
C11_Witness ==
  /\ out_of_track
  /\ ~OnTrackNow
  /\ oot_text = "On Track: Yes"
  /\ ticks >= 2
  /\ turn_right

\* C12: a track definition with fewer than 3 points in outer_bound or
\* inner_bound is rejected when it is loaded, so no tick runs with it.
C12_ShortTrackRejected ==
  (Len(track.outer_box) < 3 \/ Len(track.inner_box) < 3)
    => (ticks = 0 /\ calls = << >>)

\* the record the track was built from
ConfiguredRecord ==
  CHOOSE rec \in {TRACKS[1], ScenarioTrack} : rec.start = track.start

\* every point of mask is the point of points mirrored in SCREEN_HEIGHT
IsFlipOf(mask, points) ==
  /\ Len(mask) = Len(points)
  /\ \A i \in 1..Len(points) :
       /\ mask[i][1] = points[i][1]
       /\ mask[i][2] + points[i][2] = SCREEN_HEIGHT

\* C13: the polygons handed to the rasterizer are the configured points
\* with y' = SCREEN_HEIGHT - y; the stored lists stay as configured and
\* is_ontrack tests the point against them, without the flip.
C13_FlipForMaskOnly ==
  /\ IsFlipOf(track.mask_outer, ConfiguredRecord.outer_bound)
  /\ IsFlipOf(track.mask_inner, ConfiguredRecord.inner_bound)
  /\ track.outer_box = ConfiguredRecord.outer_bound
  /\ track.inner_box = ConfiguredRecord.inner_bound
  /\ probe # << >>
       => probe.on =
            (/\ is_point_in_polygon(probe.x * PosScale, probe.y * PosScale,
                                    ConfiguredRecord.outer_bound)
             /\ ~is_point_in_polygon(probe.x * PosScale, probe.y * PosScale,
                                     ConfiguredRecord.inner_bound))

\* a probe found on the track that the flipped polygons would place off it
C13_Witness ==
  /\ probe # << >>
  /\ probe.on
  /\ ~(/\ is_point_in_polygon(probe.x * PosScale, probe.y * PosScale,
                              track.mask_outer)
       /\ ~is_point_in_polygon(probe.x * PosScale, probe.y * PosScale,
                               track.mask_inner))

\* C14: while out_of_track is true and until a reset, no tick and no key
\* event changes the angle, and the velocity changes only by the physics
\* step of a tick (damping, no force).
C14_FlaggedCarNotSteered ==
  [][(out_of_track /\ ~ResetStep)
       => /\ angle' = angle
          /\ \/ vel' = vel
             \/ TickStep /\ vel' = Damped(vel)]_vars

\* a flagged, moving car has kept the angle of its ten right turns through
\* ticks run with turn-left held
C14_Witness ==
  /\ out_of_track
  /\ ticks >= 2
  /\ turn_left /\ ~turn_right
  /\ angle = -10 * CAR_TURN_SPEED
  /\ vel # ZeroVec
  /\ calls = << StepCall >>

\* C15: a reset leaves the four input flags as they are, so the first tick
\* after the reset acts on a control that was held through the reset.
C15_ResetKeepsInput ==
  /\ [][ResetStep => /\ accelerate' = accelerate
                     /\ slowdown' = slowdown
                     /\ turn_left' = turn_left
                     /\ turn_right' = turn_right]_vars
  /\ [][(TickStep /\ calls = << >>)
          => /\ accelerate
                  => calls'[1] = ApplyForceCall(<<0, ACCELERATE_FORCE>>)
             /\ (slowdown /\ ~accelerate)
                  => calls'[1] = SetVelocityCall(ZeroVec)
             /\ turn_left => angle' = CAR_TURN_SPEED
             /\ (turn_right /\ ~turn_left) => angle' = -CAR_TURN_SPEED]_vars

\* a car drawn as flagged has been reset and the first tick on the new
\* engine has accelerated and turned it right
C15_Witness ==
  /\ oot_text = "On Track: No"
  /\ ~out_of_track
  /\ pos = StartPos
  /\ accelerate /\ turn_right
  /\ calls = << ApplyForceCall(<<0, ACCELERATE_FORCE>>),
                SetAngleCall(-CAR_TURN_SPEED),
                SetVelocityCall(ZeroVec),
                StepCall >>
  /\ angle = -CAR_TURN_SPEED

\* the kind of the latest logged event on a key of the set, "none" if there
\* is no such event
LastKind(log, keys) ==
  LET S == {i \in 1..Len(log) : log[i][2] \in keys}
  IN  IF S = {} THEN "none" ELSE log[MaxOf(S)][1]

\* C16: each input flag is true exactly when the latest event on a key bound
\* to its control is a press; an event on a key of another control does not
\* change it, and a release clears it whichever of its keys is released.
C16_FlagsFollowEvents ==
  /\ accelerate = (LastKind(events, {"UP", "W"}) = "press")
  /\ slowdown   = (LastKind(events, {"DOWN", "S"}) = "press")
  /\ turn_left  = (LastKind(events, {"LEFT", "A"}) = "press")
  /\ turn_right = (LastKind(events, {"RIGHT", "D"}) = "press")

\* UP and W were pressed and W alone was released: accelerate is clear
\* while UP is still down
C16_Witness ==
  /\ events = << <<"press", "UP">>, <<"press", "W">>, <<"release", "W">> >>
  /\ ~accelerate

====
